---- MODULE Spec2Model ----
(***************************************************************************)
(* The Flappy Bird game component of src/src/components/Game.tsx as a      *)
(* state machine: the React state (gameStarted, gameOver, score,           *)
(* highScore), the refs the game loop owns (bird, pipes, clouds,           *)
(* frameRef), the browser's animation-frame queue and the local-storage    *)
(* key.                                                                    *)
(*                                                                         *)
(* Units.  Horizontal quantities are in pixels.  Vertical quantities       *)
(* (bird.y, bird.velocity, topHeight) are in half pixels, because GRAVITY  *)
(* is 0.5 px per tick: V(n) turns a pixel count into half pixels.          *)
(*                                                                         *)
(* React.  A click or key press is a discrete event: the state it sets is  *)
(* rendered and the effects of that render are run before the handler's    *)
(* event returns.  The updates a frame callback makes are batched and      *)
(* committed, effects included, before the next frame.  Each action below  *)
(* is therefore the handler followed by the commit it causes.              *)
(***************************************************************************)
EXTENDS Integers, Sequences, FiniteSets

VARIABLES
    gameStarted,    \* useState(false)
    gameOver,       \* useState(false)
    score,          \* useState(0)
    highScore,      \* useState(initializer): a JS number, possibly NaN
    stored,         \* localStorage['flappyBirdHighScore']: Null or a string
    bird,           \* birdRef.current
    pipes,          \* pipesRef.current
    clouds,         \* cloudsRef.current
    mounted,        \* the Game view has not been discarded
    frameRef,       \* frameRef.current: tick counter and rAF handle at once
    pending,        \* handles of the animation-frame callbacks not yet run
    rafId,          \* the window's animation frame callback identifier
    op,             \* the operation that produced this state
    ticks,          \* physics ticks run in the current session
    flapped,        \* a jump was made while Playing in the current session
    startHigh,      \* highScore when the current session started
    spins,          \* consecutive frames that did not advance physics
    resets,         \* resetGame calls so far
    replay          \* frames run since the first resetGame call

vars == <<gameStarted, gameOver, score, highScore, stored, bird, pipes,
          clouds, mounted, frameRef, pending, rafId, op, ticks, flapped, startHigh, spins,
          resets, replay>>

----------------------------------------------------------------------------
(* Program constants *)

Scale == 2                  \* half pixels per pixel: 1 / GRAVITY
GRAVITY == 1                \* 0.5 px per tick, in half pixels
JUMP_FORCE == -8            \* px per tick
PIPE_SPEED == 3
PIPE_WIDTH == 52
PIPE_GAP == 150
BIRD_WIDTH == 34
BIRD_HEIGHT == 24
CANVAS_WIDTH == 800
CANVAS_HEIGHT == 500
BIRD_X == 50                \* the bird's fixed horizontal position
SPAWN_EVERY == 100          \* frameRef.current % 100 === 0

V(n) == n * Scale

(* Bounds of the model *)

MaxFrame == 480             \* animation-frame handles handed out
MaxSpin == 1                \* consecutive frames outside Playing
MaxReplay == 60             \* frames followed after the first Play Again
RandomDen == 500            \* Math.random() is k / RandomDen

\* The values of Math.random() the model draws, as numerators k.
RandomSamples == {0, 100, 499}

\* A player flaps while Playing only at these velocities (half pixels per
\* tick): at the apex 16 ticks after a flap, which climbs 60 px per flap, or
\* falling at 7.5 px per tick 31 ticks after a flap, which holds the height.
FlapAt == {0, 15}

\* A player with one more moment to flap at, for the second specification.
FlapAtWide == {0, 4, 15}

----------------------------------------------------------------------------
(* JavaScript values *)

Null == <<"null">>
NaN == [nan |-> TRUE, v |-> 0]
Num(n) == [nan |-> FALSE, v |-> n]

Digits == <<"0", "1", "2", "3", "4", "5", "6", "7", "8", "9">>
IsDigit(c) == \E i \in DOMAIN Digits : Digits[i] = c
DigitVal(c) == (CHOOSE i \in DOMAIN Digits : Digits[i] = c) - 1
IsSpace(c) == c = " "

\* a > b on JS numbers: false when either side is NaN
Greater(a, b) == ~a.nan /\ ~b.nan /\ a.v > b.v

\* a <= b on JS numbers
LessEq(a, b) == ~a.nan /\ ~b.nan /\ a.v <= b.v

\* Number.prototype.toString() of a non-negative integer
RECURSIVE ToString(_)
ToString(n) ==
    IF n < 10 THEN <<Digits[n + 1]>>
    ELSE Append(ToString(n \div 10), Digits[(n % 10) + 1])

RECURSIVE SkipSpaces(_)
SkipSpaces(s) ==
    IF s # <<>> /\ IsSpace(Head(s)) THEN SkipSpaces(Tail(s)) ELSE s

RECURSIVE DigitPrefix(_)
DigitPrefix(s) ==
    IF s # <<>> /\ IsDigit(Head(s)) THEN <<Head(s)>> \o DigitPrefix(Tail(s))
    ELSE <<>>

RECURSIVE DigitsValue(_)
DigitsValue(d) ==
    IF d = <<>> THEN 0
    ELSE DigitsValue(SubSeq(d, 1, Len(d) - 1)) * 10 + DigitVal(d[Len(d)])

\* parseInt(s, 10): leading white space, an optional sign, then the longest
\* run of decimal digits; NaN when that run is empty.
ParseInt(s) ==
    LET t == SkipSpaces(s)
        neg == t # <<>> /\ Head(t) = "-"
        u == IF t # <<>> /\ Head(t) \in {"-", "+"} THEN Tail(t) ELSE t
        d == DigitPrefix(u)
    IN  IF d = <<>> THEN NaN
        ELSE Num(IF neg THEN 0 - DigitsValue(d) ELSE DigitsValue(d))

\* useState(() => { saved = getItem(...); return saved ? parseInt(saved, 10) : 0 })
LoadHighScore(saved) ==
    IF saved = Null \/ saved = <<>> THEN Num(0) ELSE ParseInt(saved)

----------------------------------------------------------------------------
(* The bird and the pipes *)

InitialBird == [y |-> V(250), velocity |-> 0, rotation |-> 0, frame |-> 0]

\* Mutant: the position integrates the velocity of the previous tick.
UpdateBirdStale(b) ==
    LET vel == b.velocity + GRAVITY
        rot == b.rotation + 2
    IN  [y |-> b.y + b.velocity,
         velocity |-> vel,
         rotation |-> IF rot > 70 THEN 70 ELSE rot,
         frame |-> (b.frame + 1) % 3]

UpdateBird(b) ==
    LET vel == b.velocity + GRAVITY
        rot == b.rotation + 2
    IN  [y |-> b.y + vel,
         velocity |-> vel,
         rotation |-> IF rot > 70 THEN 70 ELSE rot,
         frame |-> (b.frame + 1) % 3]

\* Mutant: the impulse is added to the current velocity.
\* Mutant: the flap sets the impulse and leaves the tilt.
FlapKeepsTilt(b) == [b EXCEPT !.velocity = V(JUMP_FORCE)]

FlapAdds(b) ==
    [b EXCEPT !.velocity = b.velocity + V(JUMP_FORCE), !.rotation = -20]

Flap(b) == [b EXCEPT !.velocity = V(JUMP_FORCE), !.rotation = -20]

\* Mutant: the margin of 100 px is not taken off the range.
RandomTopHeightWide(k) ==
    (k * V(CANVAS_HEIGHT - PIPE_GAP)) \div RandomDen + V(50)

\* Math.random() * (canvas.height - PIPE_GAP - 100) + 50, with Math.random() = k / RandomDen
RandomTopHeight(k) ==
    (k * V(CANVAS_HEIGHT - PIPE_GAP - 100)) \div RandomDen + V(50)

GeneratePipes(ps, fr, k) ==
    IF fr % SPAWN_EVERY = 0
    THEN Append(ps, [x |-> CANVAS_WIDTH, topHeight |-> RandomTopHeight(k)])
    ELSE ps

\* Mutant: a pipe is kept until its right edge is left of -PIPE_WIDTH.
KeepPipeLate(pipe) == pipe.x + PIPE_WIDTH >= 0 - PIPE_WIDTH

KeepPipe(pipe) == pipe.x > 0 - PIPE_WIDTH

MovePipe(pipe) == [pipe EXCEPT !.x = pipe.x - PIPE_SPEED]

UpdatePipes(ps) ==
    LET kept == SelectSeq(ps, KeepPipe)
    IN  [i \in DOMAIN kept |-> MovePipe(kept[i])]

\* Mutant: only the floor of the canvas is checked.
OutOfBoundsFloorOnly(b) == b.y > V(CANVAS_HEIGHT)

\* Mutant: only the top of the canvas is checked.
OutOfBoundsTopOnly(b) == b.y < 0

OutOfBounds(b) == b.y < 0 \/ b.y > V(CANVAS_HEIGHT)

PipeHit(b, pipe) ==
    /\ b.y < pipe.topHeight \/ b.y > pipe.topHeight + V(PIPE_GAP)
    /\ b.y + V(BIRD_HEIGHT) > pipe.topHeight
    /\ b.y < pipe.topHeight + V(PIPE_GAP) + V(BIRD_HEIGHT)
    /\ pipe.x < BIRD_WIDTH + BIRD_X
    /\ pipe.x + PIPE_WIDTH > BIRD_X

Collides(b, ps) ==
    OutOfBounds(b) \/ \E i \in DOMAIN ps : PipeHit(b, ps[i])

\* Mutant: the scoring window is two ticks wide.
InScoreWindowWide(pipe) ==
    pipe.x + PIPE_WIDTH < 53 /\ pipe.x + PIPE_WIDTH > 47

InScoreWindow(pipe) ==
    pipe.x + PIPE_WIDTH < 50 /\ pipe.x + PIPE_WIDTH > 47

\* Mutant: the score before the increment is stored.
PersistedStale(newScore) == ToString(newScore - 1)

\* localStorage.setItem('flappyBirdHighScore', newScore.toString())
Persisted(newScore) == ToString(newScore)

\* The setScore updater, run once per pipe in the scoring window, with the
\* highScore the loop's closure captured: st = [score, highScore, stored].
RECURSIVE ScoreUpdates(_, _, _)
ScoreUpdates(st, n, closureHigh) ==
    IF n = 0 THEN st
    ELSE LET newScore == st.score + 1
             record == Greater(Num(newScore), closureHigh)
         IN  ScoreUpdates(
                 [score |-> newScore,
                  highScore |-> IF record THEN Num(newScore) ELSE st.highScore,
                  stored |-> IF record THEN Persisted(newScore) ELSE st.stored],
                 n - 1, closureHigh)

----------------------------------------------------------------------------
(* The clouds.  x and speed are in tenths of a pixel, y in pixels, scale   *)
(* and opacity in hundredths; r is the numerator of a Math.random() draw.  *)

CloudX(r) == (r * 10 * CANVAS_WIDTH) \div RandomDen        \* random * 800
CloudY(r) == (r * 200) \div RandomDen                      \* random * 200
CloudSpeed(r) == 3 + (r * 4) \div RandomDen                \* 0.3 + random * 0.4
CloudScale(r) == 50 + (r * 50) \div RandomDen              \* 0.5 + random * 0.5
CloudOpacity(r) == 40 + (r * 30) \div RandomDen            \* 0.4 + random * 0.3

NewCloud(rx, ry, rs, rc, ro) ==
    [x |-> CloudX(rx), y |-> CloudY(ry), speed |-> CloudSpeed(rs),
     scale |-> CloudScale(rc), opacity |-> CloudOpacity(ro)]

\* The five clouds of one mount: the first leaves the canvas on the left
\* late in a long session, the others stay on it.
InitialClouds ==
    << NewCloud(25, 100, 0, 0, 0),
       NewCloud(150, 499, 125, 250, 499),
       NewCloud(250, 0, 250, 499, 250),
       NewCloud(375, 250, 375, 125, 100),
       NewCloud(499, 375, 499, 375, 375) >>

Recycles(cloud) == (cloud.x - cloud.speed) + 10 * 100 < 0

\* cloud.x -= cloud.speed, and back to the right edge once it has left
MoveCloud(cloud, ry, ro) ==
    IF Recycles(cloud)
    THEN [cloud EXCEPT !.x = 10 * (CANVAS_WIDTH + 100),
                       !.y = CloudY(ry),
                       !.opacity = CloudOpacity(ro)]
    ELSE [cloud EXCEPT !.x = cloud.x - cloud.speed]

UpdateClouds(cs, ry, ro) == [i \in DOMAIN cs |-> MoveCloud(cs[i], ry, ro)]

\* The draws a tick makes for its clouds: none unless one is recycled.
CloudDraws(cs) ==
    IF \E i \in DOMAIN cs : Recycles(cs[i]) THEN RandomSamples ELSE {0}

----------------------------------------------------------------------------
(* The animation-frame queue and the effect that owns the loop *)

\* requestAnimationFrame(gameLoop) stored into frameRef.current
Request(q) ==
    [pending |-> q.pending \cup {q.rafId + 1},
     rafId |-> q.rafId + 1,
     frameRef |-> q.rafId + 1]

\* Mutant: the cleanup cancels the handle of the frame before.
CancelStale(q) == [q EXCEPT !.pending = q.pending \ {q.frameRef - 1}]

\* cancelAnimationFrame(frameRef.current)
Cancel(q) == [q EXCEPT !.pending = q.pending \ {q.frameRef}]

\* The effect of [gameStarted, gameOver, highScore]: when a dependency
\* changed, the cleanup of the old effect runs, then the effect again.
Resubscribe(q, changed) == IF changed THEN Request(Cancel(q)) ELSE q

\* useRef(0), then the effect's first requestAnimationFrame
InitialQueue == Request([pending |-> {}, rafId |-> 0, frameRef |-> 0])

Queue == [pending |-> pending, rafId |-> rafId, frameRef |-> frameRef]

SetQueue(q) ==
    /\ pending' = q.pending
    /\ rafId' = q.rafId
    /\ frameRef' = q.frameRef

----------------------------------------------------------------------------
(* Initial state: the component mounted, first effects run *)

StoredValues == {Null, <<"1">>, <<"a", "b">>}

Init ==
    /\ stored \in StoredValues
    /\ highScore = LoadHighScore(stored)
    /\ gameStarted = FALSE
    /\ gameOver = FALSE
    /\ score = 0
    /\ bird = InitialBird
    /\ pipes = <<>>
    /\ clouds = InitialClouds
    /\ mounted = TRUE
    /\ pending = InitialQueue.pending
    /\ rafId = InitialQueue.rafId
    /\ frameRef = InitialQueue.frameRef
    /\ op = "mount"
    /\ ticks = 0
    /\ flapped = FALSE
    /\ startHigh = highScore
    /\ spins = 0
    /\ resets = 0
    /\ replay = 0

----------------------------------------------------------------------------
(* Operations *)

\* The frames the model follows: MaxFrame in all, MaxReplay after a reset.
FrameAllowed == rafId < MaxFrame /\ (resets > 0 => replay < MaxReplay)

Replayed == IF resets > 0 THEN replay + 1 ELSE replay

\* A gate that lets the loop run on after the session has ended.
LoopIdlesUnstarted == ~gameStarted

\* if (!gameStarted || gameOver): the loop only reschedules itself
LoopIdles == ~gameStarted \/ gameOver

\* A jump that also restarts a finished session.
StartingOrOver == ~gameStarted \/ gameOver

\* if (!gameStarted): jump starts a session
Starting == ~gameStarted

\* A jump that flaps whatever the session state.
MayFlapAlways == TRUE

\* if (!gameOver): jump flaps
MayFlap == ~gameOver

\* The browser runs the callback with handle h.
Fire(h) == [Queue EXCEPT !.pending = pending \ {h}]

\* gameLoop while Idle or GameOver: reschedule and return.
IdleFrame ==
    /\ mounted
    /\ LoopIdles
    /\ FrameAllowed
    /\ spins < MaxSpin
    /\ \E h \in pending : SetQueue(Request(Fire(h)))
    /\ op' = "frame"
    /\ spins' = spins + 1
    /\ replay' = Replayed
    /\ UNCHANGED <<gameStarted, gameOver, score, highScore, stored, bird,
                   pipes, clouds, mounted, ticks, flapped, startHigh, resets>>

\* gameLoop while Playing: one physics tick, then the commit of the state
\* it set (gameOver, score, highScore) and the effect of that commit.
PhysicsTick ==
    /\ mounted
    /\ ~LoopIdles
    /\ FrameAllowed
    /\ \E h \in pending :
       LET q1 == Fire(h)
           fr == q1.frameRef + 1
       IN  \E k \in IF fr % SPAWN_EVERY = 0 THEN RandomSamples ELSE {0},
              ry \in CloudDraws(clouds), ro \in CloudDraws(clouds) :
           LET b == UpdateBird(bird)
               ps == UpdatePipes(GeneratePipes(pipes, fr, k))
               over == Collides(b, ps)
               n == Cardinality({i \in DOMAIN ps : InScoreWindow(ps[i])})
               st == ScoreUpdates([score |-> score, highScore |-> highScore,
                                   stored |-> stored], n, highScore)
               q2 == Request([q1 EXCEPT !.frameRef = fr])
           IN  /\ bird' = b
               /\ clouds' = UpdateClouds(clouds, ry, ro)
               /\ pipes' = ps
               /\ gameOver' = over
               /\ score' = st.score
               /\ highScore' = st.highScore
               /\ stored' = st.stored
               /\ SetQueue(Resubscribe(q2, over \/ st.highScore # highScore))
    /\ op' = "tick"
    /\ ticks' = ticks + 1
    /\ spins' = 0
    /\ replay' = Replayed
    /\ UNCHANGED <<gameStarted, mounted, flapped, startHigh, resets>>

\* jump: onClick / Space on the canvas, by a player who flaps only when
\* the bird's velocity is in flapAt.
JumpWhen(flapAt) ==
    /\ mounted
    /\ (gameStarted /\ ~gameOver) => bird.velocity \in flapAt
    /\ LET starting == Starting
           b == IF starting THEN InitialBird ELSE bird
       IN  /\ gameStarted' = TRUE
           /\ gameOver' = IF starting THEN FALSE ELSE gameOver
           /\ score' = IF starting THEN 0 ELSE score
           /\ pipes' = IF starting THEN <<>> ELSE pipes
           /\ bird' = IF MayFlap THEN Flap(b) ELSE b
           /\ SetQueue(Resubscribe(Queue, starting))
           /\ ticks' = IF starting THEN 0 ELSE ticks
           /\ flapped' = IF starting THEN FALSE ELSE (flapped \/ MayFlap)
           /\ startHigh' = IF starting THEN highScore ELSE startHigh
           /\ spins' = IF starting THEN 0 ELSE spins
    /\ op' = "jump"
    /\ UNCHANGED <<highScore, stored, clouds, mounted, resets, replay>>

\* Mutant: resetGame without setGameOver(false).
ResetKeepsOver ==
    /\ mounted
    /\ gameOver
    /\ gameStarted' = FALSE
    /\ score' = 0
    /\ bird' = InitialBird
    /\ pipes' = <<>>
    /\ SetQueue(Resubscribe(Queue, gameStarted))
    /\ op' = "reset"
    /\ ticks' = 0
    /\ flapped' = FALSE
    /\ spins' = 0
    /\ resets' = resets + 1
    /\ UNCHANGED <<gameOver, highScore, stored, clouds, mounted, startHigh,
                   replay>>

\* Mutant: resetGame without setScore(0).
ResetKeepsScore ==
    /\ mounted
    /\ gameOver
    /\ gameStarted' = FALSE
    /\ gameOver' = FALSE
    /\ bird' = InitialBird
    /\ pipes' = <<>>
    /\ SetQueue(Resubscribe(Queue, gameStarted \/ gameOver))
    /\ op' = "reset"
    /\ ticks' = 0
    /\ flapped' = FALSE
    /\ spins' = 0
    /\ resets' = resets + 1
    /\ UNCHANGED <<score, highScore, stored, clouds, mounted, startHigh,
                   replay>>

\* resetGame: the Play Again button, rendered only while gameOver.
Reset ==
    /\ mounted
    /\ gameOver
    /\ gameStarted' = FALSE
    /\ gameOver' = FALSE
    /\ score' = 0
    /\ bird' = InitialBird
    /\ pipes' = <<>>
    /\ SetQueue(Resubscribe(Queue, gameStarted \/ gameOver))
    /\ op' = "reset"
    /\ ticks' = 0
    /\ flapped' = FALSE
    /\ spins' = 0
    /\ resets' = resets + 1
    /\ UNCHANGED <<highScore, stored, clouds, mounted, startHigh, replay>>

Jump == JumpWhen(FlapAt)

JumpWide == JumpWhen(FlapAtWide)

\* The view is discarded: the effect's cleanup cancels the pending frame.
Unmount ==
    /\ mounted
    /\ mounted' = FALSE
    /\ SetQueue(Cancel(Queue))
    /\ op' = "unmount"
    /\ UNCHANGED <<gameStarted, gameOver, score, highScore, stored, bird,
                   pipes, clouds, ticks, flapped, startHigh, spins, resets,
                   replay>>

Next == IdleFrame \/ PhysicsTick \/ Jump \/ Reset

Spec == Init /\ [][Next]_vars

\* The same game on a browser without a stored high score, with the
\* player who has one more moment to flap at.
InitFresh == Init /\ stored = Null

NextWide == IdleFrame \/ PhysicsTick \/ JumpWide \/ Reset

SpecWide == InitFresh /\ [][NextWide]_vars

\* The same game in a view that may be discarded at any moment.
NextUnmount == IdleFrame \/ PhysicsTick \/ Jump \/ Reset \/ Unmount

SpecUnmount == Init /\ [][NextUnmount]_vars

----------------------------------------------------------------------------
(* Session states *)

Idle == ~gameStarted /\ ~gameOver
Playing == gameStarted /\ ~gameOver
GameOver == gameStarted /\ gameOver

----------------------------------------------------------------------------
(* C1: collision *)

HorizontalOverlap(pipe) ==
    pipe.x < BIRD_X + BIRD_WIDTH /\ pipe.x + PIPE_WIDTH > BIRD_X

OutsideGap(b, pipe) ==
    b.y < pipe.topHeight \/ b.y > pipe.topHeight + V(PIPE_GAP)

\* C1: a physics tick declares GameOver if and only if, after the bird and
\* the pipes are updated, the bird is above 0 or below the canvas height, or
\* some pipe overlaps the bird horizontally while the bird is outside that
\* pipe's gap band.
C1_CollisionIffOutsideGap ==
    op = "tick" =>
        (gameOver <=>
            \/ bird.y < 0
            \/ bird.y > V(CANVAS_HEIGHT)
            \/ \E i \in DOMAIN pipes :
                   HorizontalOverlap(pipes[i]) /\ OutsideGap(bird, pipes[i]))

----------------------------------------------------------------------------
(* C2: scoring *)

\* The pipe's trailing edge is at or right of the bird's position before
\* the tick and left of it after the tick's shift.
Crosses(pipe) ==
    /\ pipe.x + PIPE_WIDTH >= BIRD_X
    /\ (pipe.x - PIPE_SPEED) + PIPE_WIDTH < BIRD_X

CrossCount(ps) == Cardinality({i \in DOMAIN ps : Crosses(ps[i])})

\* C2: in every physics tick the score rises by exactly the number of pipes
\* whose trailing edge crosses x = 50 in that tick, which is 0 or 1 (so a
\* pipe is scored in the tick it crosses and never again), and nothing else
\* changes the score while the session is Playing.
C2_ScoreOncePerCrossing ==
    [][/\ op' = "tick" =>
            /\ score' = score + CrossCount(pipes)
            /\ score' - score \in {0, 1}
       /\ (Playing /\ op' # "tick") => score' = score]_vars

\* Two pipes have crossed and the session is still Playing.
C2_Witness == op = "tick" /\ Playing /\ score = 2 /\ Len(pipes) >= 2

----------------------------------------------------------------------------
(* C3: high score is the maximum *)

\* Math.max on JS numbers
MaxNum(a, b) == IF a.nan \/ b.nan THEN NaN ELSE IF a.v >= b.v THEN a ELSE b

\* C3: the high score never decreases, and when a session has ended in
\* GameOver the high score is the maximum of the high score at the start of
\* the session and the final score, so that score <= high score.
C3_HighScoreIsMax ==
    [][/\ ~Greater(highScore, highScore')
       /\ GameOver' =>
            /\ LessEq(Num(score'), highScore')
            /\ highScore' = MaxNum(startHigh', Num(score'))]_vars

----------------------------------------------------------------------------
(* C4: persistence *)

\* C4: whenever the in-memory high score changes it has increased, in a
\* physics tick, and the stored value is written in the same step with the
\* same number; the stored value is written by no other step.
C4_PersistedOnIncrease ==
    [][/\ highScore' # highScore =>
            /\ op' = "tick"
            /\ ~highScore.nan /\ ~highScore'.nan
            /\ highScore'.v > highScore.v
            /\ stored' = ToString(highScore'.v)
       /\ stored' # stored => highScore' # highScore]_vars

\* A record tick after a scoring tick that set no record: the stored "1"
\* was left alone at score 1 and overwritten at score 2.
C4_Witness ==
    op = "tick" /\ startHigh = Num(1) /\ highScore = Num(2) /\ stored = <<"2">>

----------------------------------------------------------------------------
(* C5: a session without a second jump *)

\* C5: in a session in which no jump follows the starting one, the bird's
\* position strictly increases from each physics tick to the next, and the
\* tick in which it exceeds the canvas height is the one that ends the
\* session.
C5_FallsFromFirstTick ==
    [][(op' = "tick" /\ ~flapped) =>
            /\ bird'.y > bird.y
            /\ gameOver' <=> bird'.y > V(CANVAS_HEIGHT)]_vars

\* ticks with negative velocity after a flap: 15
RisingTicks == (0 - V(JUMP_FORCE)) \div GRAVITY - 1

\* C5 (amended): in such a session the bird rises for the first 15 ticks
\* (the starting jump sets the velocity to JUMP_FORCE), keeps its height in
\* the 16th and from the 17th tick on strictly increases its position from
\* each tick to the next, until it exceeds the canvas height in the 51st
\* tick; that tick makes the state GameOver; no physics tick runs in
\* GameOver and only a reset leaves it, so the transition happens once.
C5_RisesThenFalls ==
    [][/\ (op' = "tick" /\ ~flapped) =>
            /\ ticks' <= RisingTicks => bird'.y < bird.y
            /\ ticks' = RisingTicks + 1 => bird'.y = bird.y
            /\ ticks' > RisingTicks + 1 => bird'.y > bird.y
            /\ gameOver' <=> bird'.y > V(CANVAS_HEIGHT)
            /\ gameOver' <=> ticks' = 51
       /\ gameOver => op' # "tick"
       /\ (gameOver /\ op' # "reset") => gameOver']_vars

\* The unflapped bird has hit the floor.
C5_Witness == op = "tick" /\ GameOver /\ ~flapped /\ ticks = 51

----------------------------------------------------------------------------
(* C6: jump *)

\* C6: a jump made while Idle or Playing leaves the velocity at JUMP_FORCE
\* and the rotation at -20, and leaves the session Playing.
C6_JumpSetsImpulse ==
    [][(op' = "jump" /\ ~gameOver) =>
            /\ bird'.velocity = V(JUMP_FORCE)
            /\ bird'.rotation = 0 - 20
            /\ gameStarted' /\ ~gameOver']_vars

\* A jump made while Playing, by a falling bird.
C6_Witness == op = "jump" /\ Playing /\ flapped /\ ticks > 0

----------------------------------------------------------------------------
(* C7: reset *)

\* C7: resetGame yields Idle with score 0, no pipes and the initial bird,
\* and leaves the high score and the stored value as they were.
C7_ResetClears ==
    [][op' = "reset" =>
            /\ Idle'
            /\ score' = 0
            /\ pipes' = <<>>
            /\ bird' = [y |-> V(250), velocity |-> 0, rotation |-> 0, frame |-> 0]
            /\ highScore' = highScore
            /\ stored' = stored]_vars

\* A reset after a session that scored its first point (a new record).
C7_Witness ==
    op = "reset" /\ Idle /\ startHigh = Num(0) /\ highScore = Num(1)

----------------------------------------------------------------------------
(* C8: loading the high score *)

IsDecimal(s) == s # Null /\ s # <<>> /\ \A i \in DOMAIN s : IsDigit(s[i])

\* C8: after initialization the high score is the stored integer when the
\* stored value is a base-10 integer string, and 0 otherwise (absent, empty
\* or malformed).
C8_MalformedFallsBackToZero ==
    op = "mount" =>
        highScore = IF IsDecimal(stored) THEN Num(DigitsValue(stored)) ELSE Num(0)

----------------------------------------------------------------------------
(* C9: integration *)

\* 1 + 2 + ... + n
Triangle(n) == (n * (n + 1)) \div 2

\* C9: after N physics ticks of a session without a jump input, velocity is
\* N x GRAVITY and y is 250 plus the running sum of those velocities.
C9_VelocityIsTicksTimesGravity ==
    (gameStarted /\ ~flapped) =>
        /\ bird.velocity = ticks * GRAVITY
        /\ bird.y = V(250) + Triangle(ticks) * GRAVITY

\* C9 (amended): after N physics ticks of a session in which no jump
\* followed the starting one, velocity is JUMP_FORCE + N x GRAVITY and y is
\* 250 plus the running sum of those velocities.
C9_VelocityFromJumpForce ==
    (gameStarted /\ ~flapped) =>
        /\ bird.velocity = V(JUMP_FORCE) + ticks * GRAVITY
        /\ bird.y = V(250) + ticks * V(JUMP_FORCE) + Triangle(ticks) * GRAVITY

\* Fifty ticks into a session without a second jump.
C9_Witness == op = "tick" /\ Playing /\ ~flapped /\ ticks = 50

----------------------------------------------------------------------------
(* C10: pipe removal *)

\* pipes[i] is in the list after the step, shifted left by PIPE_SPEED
Stays(pipe, after) ==
    \E j \in DOMAIN after :
        after[j] = [x |-> pipe.x - PIPE_SPEED, topHeight |-> pipe.topHeight]

\* every pipe after the step is a shifted pipe or the one just spawned
NothingElse(before, after) ==
    \A j \in DOMAIN after :
        \/ after[j].x = CANVAS_WIDTH - PIPE_SPEED
        \/ \E i \in DOMAIN before : after[j].x = before[i].x - PIPE_SPEED

\* C10: a physics tick removes a pipe if and only if its right edge
\* (x + PIPE_WIDTH) is less than -PIPE_WIDTH; every other pipe stays,
\* shifted left by PIPE_SPEED.
C10_RemovedBelowMinusWidth ==
    [][op' = "tick" =>
            \A i \in DOMAIN pipes :
                ~Stays(pipes[i], pipes') <=>
                    pipes[i].x + PIPE_WIDTH < 0 - PIPE_WIDTH]_vars

\* C10 (amended): a physics tick removes a pipe if and only if its right
\* edge is at or left of 0 when the tick starts (x <= -PIPE_WIDTH: the pipe
\* is fully off-screen); every other pipe stays, shifted left by PIPE_SPEED.
C10_RemovedWhenOffScreen ==
    [][op' = "tick" =>
            /\ \A i \in DOMAIN pipes :
                   ~Stays(pipes[i], pipes') <=> pipes[i].x + PIPE_WIDTH <= 0
            /\ NothingElse(pipes, pipes')]_vars

\* Every pipe that was scored has been removed again.
C10_Witness ==
    /\ op = "tick" /\ score >= 1 /\ pipes # <<>>
    /\ \A i \in DOMAIN pipes : pipes[i].x + PIPE_WIDTH >= BIRD_X

----------------------------------------------------------------------------
(* C11: a frame callback outside Playing only reschedules itself           *)

SimulationState == <<bird, pipes, clouds, score, highScore, stored>>

FrameStep == op' \in {"frame", "tick"}

\* C11: a frame callback that runs while the session is Idle or GameOver
\* leaves bird, pipes, clouds, score and high score as they were and
\* requests exactly one next frame; the bird, the pipes and the clouds
\* change in no step other than a frame callback of a Playing session
\* (and a jump or reset, which set the bird and the pipes by hand).
C11_IdleFrameOnlyReschedules ==
    [][/\ (FrameStep /\ ~Playing) =>
            /\ UNCHANGED SimulationState
            /\ UNCHANGED <<gameStarted, gameOver>>
            /\ pending' = {rafId'}
            /\ rafId' = rafId + 1
       /\ (clouds' # clouds \/ score' > score) => (FrameStep /\ Playing)
      ]_vars

\* A frame has run on a finished session that still shows pipes and a score.
C11_Witness ==
    /\ op = "frame"
    /\ GameOver
    /\ pipes # <<>>
    /\ score > 0

----------------------------------------------------------------------------
(* C12: a jump on a finished session does nothing                          *)

\* C12: a jump while the session is GameOver changes neither the session
\* state nor the bird, the pipes, the score, the high score, the stored
\* high score, the clouds or the pending frame.
C12_JumpIgnoredWhenOver ==
    [][(op' = "jump" /\ gameOver) =>
          /\ UNCHANGED <<gameStarted, gameOver>>
          /\ UNCHANGED SimulationState
          /\ UNCHANGED <<frameRef, pending, rafId>>
      ]_vars

\* The player has jumped on a finished session that shows a score.
C12_Witness ==
    /\ op = "jump"
    /\ GameOver
    /\ score > 0
    /\ bird.velocity > 0

----------------------------------------------------------------------------
(* C13: the transitions of the session state                               *)

\* C13: the session state changes only from Idle to Playing by a jump, from
\* Playing to GameOver by a physics tick, and to Idle by a reset; GameOver
\* is never directly followed by Playing, nor Idle by GameOver.
C13_OnlyThreeTransitions ==
    [][\/ UNCHANGED <<gameStarted, gameOver>>
       \/ Idle /\ Playing' /\ op' = "jump"
       \/ Playing /\ GameOver' /\ op' = "tick"
       \/ Idle' /\ op' = "reset"
      ]_vars

\* A second session has run to its end: every transition has been taken.
C13_Witness ==
    /\ resets >= 1
    /\ GameOver
    /\ op = "tick"

----------------------------------------------------------------------------
(* C14: what a session starts with                                         *)

\* C14 as stated: on every transition into Playing the score is 0, there
\* are no pipes and the bird has its initial values (y = 250, velocity 0,
\* rotation 0, frame 0).
C14_StartsFromInitialBird ==
    [][(~Playing /\ Playing') =>
          /\ score' = 0
          /\ pipes' = <<>>
          /\ bird' = InitialBird
      ]_vars

\* C14: on every transition into Playing the score is 0, there are no
\* pipes, the tick count is 0 and the bird is at y = 250 with frame 0,
\* velocity JUMP_FORCE and rotation -20: the jump that starts the session
\* has already flapped.
C14_StartsFromFlappedBird ==
    [][(~Playing /\ Playing') =>
          /\ score' = 0
          /\ pipes' = <<>>
          /\ ticks' = 0
          /\ bird' = [y |-> V(250), velocity |-> V(JUMP_FORCE),
                       rotation |-> 0 - 20, frame |-> 0]
      ]_vars

\* A session has just started after an earlier one was played and reset.
C14_Witness ==
    /\ op = "jump"
    /\ Playing
    /\ ticks = 0
    /\ resets >= 1

----------------------------------------------------------------------------
(* C15: the spawn cadence                                                  *)

\* Every tick moves every pipe of the list, the one spawned in that tick
\* included, PIPE_SPEED to the left, and a pipe stays in the list for more
\* than SPAWN_EVERY ticks: the distance between two neighbours of the list
\* is PIPE_SPEED times the number of ticks between their spawns.
TicksBetweenSpawns(i) == (pipes[i + 1].x - pipes[i].x) \div PIPE_SPEED

\* C15: exactly SPAWN_EVERY (100) physics ticks elapse between any two
\* consecutive pipe spawns of a session.
C15_SpawnEveryHundredTicks ==
    \A i \in 1 .. Len(pipes) - 1 :
        /\ (pipes[i + 1].x - pipes[i].x) % PIPE_SPEED = 0
        /\ TicksBetweenSpawns(i) = SPAWN_EVERY

----------------------------------------------------------------------------
(* C16: where the gap of a pipe lies                                       *)

GapTop(pipe) == pipe.topHeight
GapBottom(pipe) == pipe.topHeight + V(PIPE_GAP)

\* C16: every pipe of the list has 50 <= topHeight < canvas height -
\* PIPE_GAP - 50, so its gap, PIPE_GAP high, lies inside the canvas with
\* at least 50 px of pipe above and more than 50 px below it.
C16_GapInsideCanvas ==
    \A i \in DOMAIN pipes :
        /\ V(50) <= pipes[i].topHeight
        /\ pipes[i].topHeight < V(CANVAS_HEIGHT - PIPE_GAP - 50)
        /\ 0 <= GapTop(pipes[i])
        /\ GapBottom(pipes[i]) <= V(CANVAS_HEIGHT)
        /\ GapBottom(pipes[i]) - GapTop(pipes[i]) = V(PIPE_GAP)

\* Pipes with the highest and the lowest gap drawn are on the canvas.
C16_Witness ==
    /\ \E i \in DOMAIN pipes : pipes[i].topHeight = V(50)
    /\ \E i \in DOMAIN pipes :
          pipes[i].topHeight + V(1) >= V(CANVAS_HEIGHT - PIPE_GAP - 50)

----------------------------------------------------------------------------
(* C17: the bird of a running session is on the canvas                     *)

OnCanvas(b) == 0 <= b.y /\ b.y <= V(CANVAS_HEIGHT)

\* C17: between frame callbacks the bird of a Playing session has
\* 0 <= y <= canvas height, and a bird that a tick has left outside these
\* bounds belongs to a session that this tick has ended.
C17_PlayingBirdOnCanvas ==
    /\ Playing => OnCanvas(bird)
    /\ (gameStarted /\ ~OnCanvas(bird)) => (gameOver /\ OutOfBounds(bird))

\* A tick has moved the bird above the top of the canvas.
C17_Witness ==
    /\ op = "tick"
    /\ bird.y < 0
    /\ GameOver

----------------------------------------------------------------------------
(* C18: one pending frame callback                                         *)

\* C18: while the view is mounted exactly one animation-frame callback is
\* pending between events, the one whose handle frameRef holds, across
\* every re-subscription of the loop, so the loop never stops; once the
\* view has been discarded no callback is pending.
C18_OnePendingFrame ==
    /\ mounted => (Cardinality(pending) = 1 /\ pending = {frameRef})
    /\ ~mounted => pending = {}

\* The view has been discarded in its second session, after the loop was
\* re-subscribed by a start, an end, a reset and a second start.
C18_Witness ==
    /\ ~mounted
    /\ op = "unmount"
    /\ resets >= 1
    /\ Playing
    /\ ticks > 0

----------------------------------------------------------------------------
(* C19: the score of the fatal tick                                        *)

\* C19: a tick that declares GameOver increases neither the score nor the
\* high score, so the Game Over panel shows the score of before the fatal
\* tick, and the score does not change while the session is GameOver.
C19_FatalTickDoesNotScore ==
    [][/\ (op' = "tick" /\ gameOver') =>
            (score' = score /\ highScore' = highScore /\ stored' = stored)
       /\ (gameOver /\ gameOver') =>
            (score' = score /\ highScore' = highScore /\ stored' = stored)
      ]_vars

----------------------------------------------------------------------------
(* C20: the two flags                                                      *)

\* C20: in every reachable state gameOver = TRUE implies
\* gameStarted = TRUE, so the session is Idle, Playing or GameOver.
C20_OverImpliesStarted ==
    /\ gameOver => gameStarted
    /\ Idle \/ Playing \/ GameOver

\* A finished session has just been reset: both flags were cleared at once.
C20_Witness ==
    /\ op = "reset"
    /\ Idle
    /\ resets >= 1

============================================================================
